---------------------------- MODULE Spec2Model ----------------------------
(***************************************************************************)
(* Question Recommendation API: the /recommend handler (src/src/main.py),  *)
(* the allocation core (src/src/recommendation_service.py) and the         *)
(* request/response schema (src/src/model.py).                             *)
(*                                                                         *)
(* Five specifications share the handler's actions:                        *)
(*   Spec        one handler thread, schema-accepted requests varying the  *)
(*               total, the number of topics and levels and the inventory  *)
(*   SpecShape   one handler thread, schema-accepted requests varying the  *)
(*               topic names and level identifiers                         *)
(*   SpecConc    NumWorkers handler threads sharing the service instance   *)
(*   SpecProgress one handler thread, requests carrying progress history   *)
(*   SpecDirect  recommend_questions called as a plain function with       *)
(*               request objects whose fields were not schema-checked      *)
(*               (model_construct / attribute assignment)                  *)
(***************************************************************************)
EXTENDS Integers, Sequences, FiniteSets

VARIABLES pc, request, topic_recommendations, allocation, invoked, raised,
          outcome, service

vars == <<pc, request, topic_recommendations, allocation, invoked, raised,
          outcome, service>>

(***************************** bounds **************************************)
MaxT == 3
MaxTopics == 2
MaxLevels == 2
MaxCount == 1
MaxNegative == 1
NumWorkers == 2
SmallMaxT == 2
SmallMaxTopics == 1
MaxProgress == 2
MaxSolved == 1

Names == {"A", "B"}
LevelIds == {1, 2}
SingleLevel == {1}
UserIds == {1}

(************************** schema (model.py) ******************************)
SeqsUpTo(S, n) == UNION {[1..k -> S] : k \in 0..n}

OneOrNone(S) == {<<>>} \cup {<<x>> : x \in S}

UpToTwo(S) == OneOrNone(S) \cup {<<x, y>> : x \in S, y \in S}

LevelAvailability(levels, counts) == [level : levels, count : counts]

TopicAvailability(names, levelLists) == [topic : names, available : levelLists]

LevelProgress == [level : SingleLevel, solved : 0..MaxSolved, attempted : 0..MaxSolved]

TopicProgress == [topic : Names, progress_by_level : OneOrNone(LevelProgress)]

RecommendationRequest(totals, topicLists, progressLists) ==
    [user_id : UserIds,
     total_questions : totals,
     user_topics : topicLists,
     user_progress : progressLists]

\* Schema-accepted requests (total_questions >= 1, count >= 0) that vary the
\* numbers: total, number of topics, number of levels, inventory per level.
Requests ==
    RecommendationRequest(
        1..MaxT,
        SeqsUpTo(TopicAvailability({"A"},
                     SeqsUpTo(LevelAvailability(SingleLevel, 0..MaxCount), MaxLevels)),
                 MaxTopics),
        {<<>>})

\* Schema-accepted requests that vary the names and level identifiers.
ShapeRequests ==
    RecommendationRequest(
        1..MaxT,
        SeqsUpTo(TopicAvailability(Names,
                     SeqsUpTo(LevelAvailability(LevelIds, {1}), MaxLevels)),
                 MaxTopics),
        {<<>>})

\* Topics of the requests handled concurrently or with progress history.
SmallTopics ==
    TopicAvailability(Names, {<<x>> : x \in LevelAvailability(SingleLevel, {1})})

\* Schema-accepted requests of the concurrent handlers.
ConcRequests ==
    RecommendationRequest(1..SmallMaxT, SeqsUpTo(SmallTopics, SmallMaxTopics), {<<>>})

\* Schema-accepted requests that carry progress history.
ProgressRequests ==
    RecommendationRequest(1..SmallMaxT, SeqsUpTo(SmallTopics, SmallMaxTopics),
                          SeqsUpTo(TopicProgress, MaxProgress))

\* Request objects built without the schema's checks.
DirectRequests ==
    RecommendationRequest(
        0..SmallMaxT,
        SeqsUpTo(TopicAvailability(Names,
                     UpToTwo(LevelAvailability(SingleLevel,
                                               (0 - MaxNegative)..MaxCount))),
                 MaxTopics),
        {<<>>})

NoRequest ==
    [user_id |-> 0, total_questions |-> 0, user_topics |-> <<>>, user_progress |-> <<>>]

(********************** results and exceptions *****************************)
Ok(v) == [raised |-> FALSE, value |-> v, exc |-> [type |-> "", msg |-> ""]]
Raise(t, m) == [raised |-> TRUE, value |-> <<>>, exc |-> [type |-> t, msg |-> m]]

\* Python / pydantic class hierarchy of the exceptions the code can raise.
Bases(t) ==
    CASE t = "ValueError" -> {"ValueError", "Exception"}
      [] t = "ValidationError" -> {"ValidationError", "ValueError", "Exception"}
      [] t = "NotImplementedError" -> {"NotImplementedError", "RuntimeError", "Exception"}
      [] OTHER -> {t, "Exception"}

GenericDetail == "Internal server error occurred while processing recommendation"

NoOutcome == [status |-> 0, detail |-> "", body |-> <<>>]

\* Variant: the broad except clause placed first.
HandleExceptionBroadFirst(exc) ==
    [status |-> 500, detail |-> GenericDetail, body |-> <<>>]

\* main.py: except ValueError -> 400 with str(e); except Exception -> 500.
HandleException(exc) ==
    IF "ValueError" \in Bases(exc.type)
    THEN [status |-> 400, detail |-> exc.msg, body |-> <<>>]
    ELSE [status |-> 500, detail |-> GenericDetail, body |-> <<>>]

(************************ validation (main.py) *****************************)
NoTopicsMessage == "At least one topic must be provided"
TotalQuestionsMessage == "Total questions must be greater than 0"
NoLevelsMessage(name) == "Topic '" \o name \o "' must have at least one available level"
NoQuestionsMessage(name) == "Topic '" \o name \o "' has no available questions"

RECURSIVE SumCounts(_)
SumCounts(levels) ==
    IF levels = <<>> THEN 0 ELSE Head(levels).count + SumCounts(Tail(levels))

ValidateTopic(topic) ==
    IF topic.available = <<>>
    THEN Raise("ValueError", NoLevelsMessage(topic.topic))
    ELSE IF SumCounts(topic.available) = 0
         THEN Raise("ValueError", NoQuestionsMessage(topic.topic))
         ELSE Ok(<<>>)

\* Variant: every topic's level list checked first, the sums in a second pass.
ValidateTopicsTwoPass(topics) ==
    IF \E k \in DOMAIN topics : topics[k].available = <<>>
    THEN ValidateTopic(topics[CHOOSE k \in DOMAIN topics :
                                 /\ topics[k].available = <<>>
                                 /\ \A j \in 1..(k - 1) : topics[j].available /= <<>>])
    ELSE IF \E k \in DOMAIN topics : SumCounts(topics[k].available) = 0
         THEN ValidateTopic(topics[CHOOSE k \in DOMAIN topics :
                                      /\ SumCounts(topics[k].available) = 0
                                      /\ \A j \in 1..(k - 1) :
                                             SumCounts(topics[j].available) /= 0])
         ELSE Ok(<<>>)

RECURSIVE ValidateTopics(_)
ValidateTopics(topics) ==
    IF topics = <<>> THEN Ok(<<>>)
    ELSE LET r == ValidateTopic(Head(topics))
         IN IF r.raised THEN r ELSE ValidateTopics(Tail(topics))

ValidateRecommendationRequest(req) ==
    IF req.user_topics = <<>>
    THEN Raise("ValueError", NoTopicsMessage)
    ELSE IF req.total_questions <= 0
         THEN Raise("ValueError", TotalQuestionsMessage)
         ELSE ValidateTopics(req.user_topics)

(**************** the core (recommendation_service.py) *********************)
Min(a, b) == IF a <= b THEN a ELSE b

\* LevelRecommendation(level=..., count=...) with count: ge=0.
MakeLevelRecommendation(level, count) ==
    IF count >= 0
    THEN Ok([level |-> level, count |-> count])
    ELSE Raise("ValidationError", "1 validation error for LevelRecommendation")

\* dict comprehension: a later entry of the same topic replaces an earlier one.
CreateProgressLookup(user_progress) ==
    [n \in {user_progress[i].topic : i \in DOMAIN user_progress} |->
        LET last == CHOOSE i \in DOMAIN user_progress :
                        /\ user_progress[i].topic = n
                        /\ \A j \in DOMAIN user_progress :
                               user_progress[j].topic = n => j <= i
        IN user_progress[last]]

\* dict.get: <<>> stands for None, <<p>> for a found entry.
LookupGet(lookup, name) ==
    IF name \in DOMAIN lookup THEN <<lookup[name]>> ELSE <<>>

\* Variant: the allocation capped by the topic's own inventory.
CalculateTopicAllocationCapped(current_topic, total_questions, all_topics) ==
    LET total_topics == Len(all_topics)
    IN IF total_topics > 0
       THEN Min(total_questions \div total_topics, SumCounts(current_topic.available))
       ELSE 0

\* Variant: the division rounded up.
CalculateTopicAllocationCeil(current_topic, total_questions, all_topics) ==
    LET total_topics == Len(all_topics)
    IN IF total_topics > 0
       THEN (total_questions + total_topics - 1) \div total_topics
       ELSE 0

CalculateTopicAllocation(current_topic, total_questions, all_topics) ==
    LET total_topics == Len(all_topics)
    IN IF total_topics > 0 THEN total_questions \div total_topics ELSE 0

\* Variant: off-by-one in the remainder test.
QuestionsForLevelInclusive(base_questions_per_level, extra_questions, i) ==
    base_questions_per_level + (IF i <= extra_questions THEN 1 ELSE 0)

QuestionsForLevel(base_questions_per_level, extra_questions, i) ==
    base_questions_per_level + (IF i < extra_questions THEN 1 ELSE 0)

\* Variant: the availability clamp left out.
RecommendedCountUnclamped(questions_for_level, level_data) ==
    questions_for_level

RecommendedCount(questions_for_level, level_data) ==
    Min(questions_for_level, level_data.count)

\* Variant: levels that get no question are left out of the list.
RECURSIVE DistributeLoopSkipZero(_, _, _, _, _)
DistributeLoopSkipZero(available_levels, base, extra, i, recommendations) ==
    IF i >= Len(available_levels) THEN Ok(recommendations)
    ELSE LET level_data == available_levels[i + 1]
             questions_for_level == QuestionsForLevel(base, extra, i)
             recommended_count == RecommendedCount(questions_for_level, level_data)
             rec == MakeLevelRecommendation(level_data.level, recommended_count)
         IN IF rec.raised THEN rec
            ELSE DistributeLoopSkipZero(available_levels, base, extra, i + 1,
                    IF recommended_count = 0 THEN recommendations
                    ELSE Append(recommendations, rec.value))

\* the for loop of distribute_questions; i is the 0-based enumerate index.
RECURSIVE DistributeLoop(_, _, _, _, _)
DistributeLoop(available_levels, base, extra, i, recommendations) ==
    IF i >= Len(available_levels) THEN Ok(recommendations)
    ELSE LET level_data == available_levels[i + 1]
             questions_for_level == QuestionsForLevel(base, extra, i)
             recommended_count == RecommendedCount(questions_for_level, level_data)
             rec == MakeLevelRecommendation(level_data.level, recommended_count)
         IN IF rec.raised THEN rec
            ELSE DistributeLoop(available_levels, base, extra, i + 1,
                                Append(recommendations, rec.value))

\* Variant: questions the user already solved are taken off the allocation.
EvenDistributeQuestionsLessSolved(available_levels, total_questions, topic_progress) ==
    IF available_levels = <<>> THEN Ok(<<>>)
    ELSE LET solved == IF topic_progress = <<>> THEN 0
                       ELSE LET pbl == topic_progress[1].progress_by_level
                            IN IF pbl = <<>> THEN 0 ELSE pbl[1].solved
             remaining == IF total_questions > solved
                          THEN total_questions - solved ELSE 0
             level_count == Len(available_levels)
         IN DistributeLoop(available_levels, remaining \div level_count,
                           remaining % level_count, 0, <<>>)

EvenDistributeQuestions(available_levels, total_questions, topic_progress) ==
    IF available_levels = <<>> THEN Ok(<<>>)
    ELSE LET level_count == Len(available_levels)
             base_questions_per_level == total_questions \div level_count
             extra_questions == total_questions % level_count
         IN DistributeLoop(available_levels, base_questions_per_level,
                           extra_questions, 0, <<>>)

\* strategy dispatch: the base class raises, the progress-aware stub falls back.
DistributeQuestions(strategy, available_levels, total_questions, topic_progress) ==
    CASE strategy = "EvenDistributionStrategy" ->
            EvenDistributeQuestions(available_levels, total_questions, topic_progress)
      [] strategy = "ProgressAwareDistributionStrategy" ->
            EvenDistributeQuestions(available_levels, total_questions, topic_progress)
      [] OTHER -> Raise("NotImplementedError", "")

RecommendForTopic(strategy, topic, total_questions, topic_progress, all_topics) ==
    LET topic_question_allocation ==
            CalculateTopicAllocation(topic, total_questions,
                                     IF all_topics = <<>> THEN <<topic>> ELSE all_topics)
        level_recommendations ==
            DistributeQuestions(strategy, topic.available,
                                topic_question_allocation, topic_progress)
    IN IF level_recommendations.raised THEN level_recommendations
       ELSE Ok([name |-> topic.topic, recommendations |-> level_recommendations.value])

AppendRecommendation(recs, recommendation) == Append(recs, recommendation)

RECURSIVE TopicTotalRecommended(_)
TopicTotalRecommended(recommendations) ==
    IF recommendations = <<>> THEN 0
    ELSE Head(recommendations).count + TopicTotalRecommended(Tail(recommendations))

RECURSIVE TotalRecommended(_)
TotalRecommended(topics) ==
    IF topics = <<>> THEN 0
    ELSE TopicTotalRecommended(Head(topics).recommendations)
         + TotalRecommended(Tail(topics))

\* generate_recommendations as a whole, run on its own: the loop over
\* request.user_topics from index i (1-based) with the list built so far.
RECURSIVE GenerateLoop(_, _, _, _)
GenerateLoop(strategy, req, i, recs) ==
    IF i > Len(req.user_topics) THEN Ok(recs)
    ELSE LET topic == req.user_topics[i]
             topic_progress ==
                 LookupGet(CreateProgressLookup(req.user_progress), topic.topic)
             result == RecommendForTopic(strategy, topic, req.total_questions,
                                         topic_progress, req.user_topics)
         IN IF result.raised THEN result
            ELSE GenerateLoop(strategy, req, i + 1, Append(recs, result.value))

GenerateRecommendations(strategy, req) == GenerateLoop(strategy, req, 1, <<>>)

(***************************** the handler *********************************)
\* recommend_questions as a whole, run on its own.
RecommendQuestions(strategy, req) ==
    LET v == ValidateRecommendationRequest(req)
        r == GenerateRecommendations(strategy, req)
    IN IF v.raised THEN HandleException(v.exc)
       ELSE IF r.raised THEN HandleException(r.exc)
       ELSE [status |-> 200, detail |-> "", body |-> r.value]

InitWorkers(W) ==
    /\ pc = [w \in W |-> "idle"]
    /\ request = [w \in W |-> NoRequest]
    /\ topic_recommendations = [w \in W |-> <<>>]
    /\ allocation = [w \in W |-> <<>>]
    /\ invoked = [w \in W |-> FALSE]
    /\ raised = [w \in W |-> <<>>]
    /\ outcome = [w \in W |-> NoOutcome]
    /\ service = [distribution_strategy |-> "EvenDistributionStrategy"]

Init == InitWorkers({1})
InitConc == InitWorkers(1..NumWorkers)

\* The handler is entered with a request object.
Receive(w, accepted) ==
    /\ pc[w] = "idle"
    /\ \E req \in accepted : request' = [request EXCEPT ![w] = req]
    /\ pc' = [pc EXCEPT ![w] = "validate"]
    /\ UNCHANGED <<topic_recommendations, allocation, invoked, raised, outcome, service>>

\* _validate_recommendation_request(request); on success the core is entered
\* (progress lookup built, topic_recommendations = []).
ValidateStep(w) ==
    /\ pc[w] = "validate"
    /\ LET v == ValidateRecommendationRequest(request[w])
       IN IF v.raised
          THEN /\ pc' = [pc EXCEPT ![w] = "responded"]
               /\ raised' = [raised EXCEPT ![w] = <<v.exc>>]
               /\ outcome' = [outcome EXCEPT ![w] = HandleException(v.exc)]
               /\ UNCHANGED <<invoked, topic_recommendations>>
          ELSE /\ pc' = [pc EXCEPT ![w] = "core"]
               /\ invoked' = [invoked EXCEPT ![w] = TRUE]
               /\ topic_recommendations' = [topic_recommendations EXCEPT ![w] = <<>>]
               /\ UNCHANGED <<raised, outcome>>
    /\ UNCHANGED <<request, allocation, service>>

\* Variant: the list under construction is an attribute of the shared service
\* instance, so an append is seen by every request inside the loop.
TopicStepSharedList(w) ==
    /\ pc[w] = "core"
    /\ Len(topic_recommendations[w]) < Len(request[w].user_topics)
    /\ LET req == request[w]
           topic == req.user_topics[Len(topic_recommendations[w]) + 1]
           topic_progress == LookupGet(CreateProgressLookup(req.user_progress), topic.topic)
           result == RecommendForTopic(service.distribution_strategy, topic,
                                       req.total_questions, topic_progress,
                                       req.user_topics)
       IN /\ allocation' =
                [allocation EXCEPT ![w] =
                    Append(@, CalculateTopicAllocation(topic, req.total_questions,
                                                       req.user_topics))]
          /\ IF result.raised
             THEN /\ pc' = [pc EXCEPT ![w] = "responded"]
                  /\ raised' = [raised EXCEPT ![w] = <<result.exc>>]
                  /\ outcome' = [outcome EXCEPT ![w] = HandleException(result.exc)]
                  /\ UNCHANGED topic_recommendations
             ELSE /\ topic_recommendations' =
                        [v \in DOMAIN topic_recommendations |->
                            IF pc[v] = "core"
                            THEN Append(topic_recommendations[v], result.value)
                            ELSE topic_recommendations[v]]
                  /\ UNCHANGED <<pc, raised, outcome>>
    /\ UNCHANGED <<request, invoked, service>>

\* One iteration of "for topic in request.user_topics".
TopicStep(w) ==
    /\ pc[w] = "core"
    /\ Len(topic_recommendations[w]) < Len(request[w].user_topics)
    /\ LET req == request[w]
           topic == req.user_topics[Len(topic_recommendations[w]) + 1]
           topic_progress == LookupGet(CreateProgressLookup(req.user_progress), topic.topic)
           result == RecommendForTopic(service.distribution_strategy, topic,
                                       req.total_questions, topic_progress,
                                       req.user_topics)
       IN /\ allocation' =
                [allocation EXCEPT ![w] =
                    Append(@, CalculateTopicAllocation(topic, req.total_questions,
                                                       req.user_topics))]
          /\ IF result.raised
             THEN /\ pc' = [pc EXCEPT ![w] = "responded"]
                  /\ raised' = [raised EXCEPT ![w] = <<result.exc>>]
                  /\ outcome' = [outcome EXCEPT ![w] = HandleException(result.exc)]
                  /\ UNCHANGED topic_recommendations
             ELSE /\ topic_recommendations' =
                        [topic_recommendations EXCEPT ![w] =
                            AppendRecommendation(@, result.value)]
                  /\ UNCHANGED <<pc, raised, outcome>>
    /\ UNCHANGED <<request, invoked, service>>

\* return RecommendationResponse(topics=topic_recommendations); handler returns it.
Return(w) ==
    /\ pc[w] = "core"
    /\ Len(topic_recommendations[w]) >= Len(request[w].user_topics)
    /\ pc' = [pc EXCEPT ![w] = "responded"]
    /\ outcome' = [outcome EXCEPT ![w] =
                      [status |-> 200, detail |-> "", body |-> topic_recommendations[w]]]
    /\ UNCHANGED <<request, topic_recommendations, allocation, invoked, raised, service>>

\* The response has been sent; the thread takes the next request.
Release(w) ==
    /\ pc[w] = "responded"
    /\ pc' = [pc EXCEPT ![w] = "idle"]
    /\ request' = [request EXCEPT ![w] = NoRequest]
    /\ topic_recommendations' = [topic_recommendations EXCEPT ![w] = <<>>]
    /\ allocation' = [allocation EXCEPT ![w] = <<>>]
    /\ invoked' = [invoked EXCEPT ![w] = FALSE]
    /\ raised' = [raised EXCEPT ![w] = <<>>]
    /\ outcome' = [outcome EXCEPT ![w] = NoOutcome]
    /\ UNCHANGED service

Next ==
    \E w \in {1} :
        \/ Receive(w, Requests)
        \/ ValidateStep(w)
        \/ TopicStep(w)
        \/ Return(w)
        \/ Release(w)

NextConc ==
    \E w \in 1..NumWorkers :
        \/ Receive(w, ConcRequests)
        \/ ValidateStep(w)
        \/ TopicStep(w)
        \/ Return(w)
        \/ Release(w)

NextShape ==
    \E w \in {1} :
        \/ Receive(w, ShapeRequests)
        \/ ValidateStep(w)
        \/ TopicStep(w)
        \/ Return(w)
        \/ Release(w)

NextProgress ==
    \E w \in {1} :
        \/ Receive(w, ProgressRequests)
        \/ ValidateStep(w)
        \/ TopicStep(w)
        \/ Return(w)
        \/ Release(w)

NextDirect ==
    \E w \in {1} :
        \/ Receive(w, DirectRequests)
        \/ ValidateStep(w)
        \/ TopicStep(w)
        \/ Return(w)
        \/ Release(w)

Spec == Init /\ [][Next]_vars
SpecShape == Init /\ [][NextShape]_vars
SpecConc == InitConc /\ [][NextConc]_vars
SpecDirect == Init /\ [][NextDirect]_vars
SpecProgress == Init /\ [][NextProgress]_vars

(***************************** properties **********************************)
Workers == DOMAIN pc

Served(w) == pc[w] = "responded" /\ outcome[w].status = 200

Topics(w) == request[w].user_topics

\* Pre-clamp share of the level at 0-based index i among L levels of allocation A.
Raw(A, L, i) == IF i < A % L THEN (A \div L) + 1 ELSE A \div L

RECURSIVE SumSeq(_)
SumSeq(q) == IF q = <<>> THEN 0 ELSE Head(q) + SumSeq(Tail(q))

\* C1: with T >= 1 questions and N >= 1 topics every topic is allocated
\* exactly T div N, whatever its inventory; the allocations sum to
\* N * (T div N) <= T and the T mod N leftover goes to no topic.
C1_EvenTopicAllocation ==
    \A w \in Workers :
        LET T == request[w].total_questions
            N == Len(Topics(w))
        IN /\ (pc[w] \in {"core", "responded"} /\ invoked[w]) =>
                 \A k \in DOMAIN allocation[w] : allocation[w][k] = T \div N
           /\ Served(w) =>
                 /\ T >= 1 /\ N >= 1
                 /\ Len(allocation[w]) = N
                 /\ SumSeq(allocation[w]) = N * (T \div N)
                 /\ SumSeq(allocation[w]) <= T
                 /\ T - SumSeq(allocation[w]) = T % N

C1_Witness ==
    \E w \in Workers :
        /\ Served(w)
        /\ request[w].total_questions = 3
        /\ Len(Topics(w)) = 2
        /\ allocation[w] = <<1, 1>>
        /\ SumCounts(Topics(w)[1].available) /= SumCounts(Topics(w)[2].available)

\* C2: in every response each recommended count is >= 0 and <= the count
\* available for the same level of the same topic in the request.
C2_CountWithinAvailable ==
    \A w \in Workers :
        Served(w) =>
            \A k \in DOMAIN outcome[w].body :
                \A i \in DOMAIN outcome[w].body[k].recommendations :
                    /\ k \in DOMAIN Topics(w)
                    /\ i \in DOMAIN Topics(w)[k].available
                    /\ outcome[w].body[k].recommendations[i].count >= 0
                    /\ outcome[w].body[k].recommendations[i].count
                           <= Topics(w)[k].available[i].count

C2_Witness ==
    \E w \in Workers :
        /\ Served(w)
        /\ \E k \in DOMAIN outcome[w].body :
              \E i \in DOMAIN outcome[w].body[k].recommendations :
                  LET A == request[w].total_questions \div Len(Topics(w))
                      L == Len(Topics(w)[k].available)
                  IN /\ Raw(A, L, i - 1) > Topics(w)[k].available[i].count
                     /\ outcome[w].body[k].recommendations[i].count
                            = Topics(w)[k].available[i].count
                     /\ Topics(w)[k].available[i].count > 0

\* C3: for L >= 1 levels and allocation A >= 0 the level at 0-based index i
\* gets min(raw_i, available_i), raw_i = A div L + 1 if i < A mod L and
\* A div L otherwise; the raw shares of a topic sum to A.
C3_RemainderToFirstLevels ==
    \A w \in Workers :
        Served(w) =>
            \A k \in DOMAIN outcome[w].body :
                LET A == allocation[w][k]
                    avail == Topics(w)[k].available
                    recs == outcome[w].body[k].recommendations
                    L == Len(avail)
                IN L >= 1 =>
                     /\ A >= 0
                     /\ \A i \in 0..(L - 1) :
                           /\ (i + 1) \in DOMAIN recs
                           /\ recs[i + 1].count =
                                 IF Raw(A, L, i) <= avail[i + 1].count
                                 THEN Raw(A, L, i) ELSE avail[i + 1].count
                     /\ SumSeq([i \in 1..L |-> Raw(A, L, i - 1)]) = A

C3_Witness ==
    \E w \in Workers :
        /\ Served(w)
        /\ \E k \in DOMAIN outcome[w].body :
              LET recs == outcome[w].body[k].recommendations
                  avail == Topics(w)[k].available
              IN /\ Len(avail) = 2
                 /\ allocation[w][k] % 2 = 1
                 /\ avail[2].count >= avail[1].count
                 /\ recs[1].count = (allocation[w][k] \div 2) + 1
                 /\ recs[2].count = allocation[w][k] \div 2
                 /\ recs[2].count < avail[2].count

\* C4: the response has one topic entry per input topic, same position and
\* name (also for repeated names), and each entry has one level entry per
\* input level, same position and level identifier.
C4_OrderAndShapePreserved ==
    \A w \in Workers :
        Served(w) =>
            /\ Len(outcome[w].body) = Len(Topics(w))
            /\ \A k \in DOMAIN Topics(w) :
                  /\ outcome[w].body[k].name = Topics(w)[k].topic
                  /\ Len(outcome[w].body[k].recommendations)
                        = Len(Topics(w)[k].available)
                  /\ \A i \in DOMAIN Topics(w)[k].available :
                        outcome[w].body[k].recommendations[i].level
                            = Topics(w)[k].available[i].level

C4_Witness ==
    \E w \in Workers :
        /\ Served(w)
        /\ Len(Topics(w)) = 2
        /\ Topics(w)[1].topic = Topics(w)[2].topic
        /\ outcome[w].body[1].name = outcome[w].body[2].name
        /\ Len(Topics(w)[1].available) = 2
        /\ outcome[w].body[1].recommendations[1].level = 2
        /\ outcome[w].body[1].recommendations[2].level = 1
        /\ outcome[w].body[1].recommendations /= outcome[w].body[2].recommendations

\* C5: validation reports only the first failing rule, in the order: no
\* topics, total_questions <= 0, then the topics in input order, each checked
\* for an empty level list before a zero sum of counts; the four rules have
\* four different messages; a request failing none of them passes.
TopicFails(t) == t.available = <<>> \/ SumCounts(t.available) = 0

FirstFailure(req) ==
    IF req.user_topics = <<>> THEN NoTopicsMessage
    ELSE IF req.total_questions <= 0 THEN TotalQuestionsMessage
    ELSE IF \E k \in DOMAIN req.user_topics : TopicFails(req.user_topics[k])
         THEN LET k == CHOOSE j \in DOMAIN req.user_topics :
                          /\ TopicFails(req.user_topics[j])
                          /\ \A h \in 1..(j - 1) : ~TopicFails(req.user_topics[h])
                  t == req.user_topics[k]
              IN IF t.available = <<>> THEN NoLevelsMessage(t.topic)
                 ELSE NoQuestionsMessage(t.topic)
         ELSE ""

C5_FirstFailingRuleReported ==
    /\ \A n \in Names :
          Cardinality({NoTopicsMessage, TotalQuestionsMessage,
                       NoLevelsMessage(n), NoQuestionsMessage(n)}) = 4
    /\ \A w \in Workers :
          pc[w] \in {"core", "responded"} =>
              IF FirstFailure(request[w]) = ""
              THEN invoked[w]
              ELSE /\ ~invoked[w]
                   /\ raised[w] = <<[type |-> "ValueError",
                                     msg |-> FirstFailure(request[w])]>>

C5_Witness ==
    \E w \in Workers :
        /\ pc[w] = "responded"
        /\ Len(Topics(w)) = 2
        /\ Topics(w)[1].available /= <<>>
        /\ SumCounts(Topics(w)[1].available) = 0
        /\ Topics(w)[2].available = <<>>
        /\ Topics(w)[1].topic = "A"
        /\ Topics(w)[2].topic = "B"
        /\ raised[w] = <<[type |-> "ValueError", msg |-> NoQuestionsMessage("A")]>>

\* C6: validation runs before the core: while it has not run nothing of the
\* core has happened; when it fails the core is never entered and the outcome
\* is 400 with exactly the validation message; the core is entered only for
\* requests that pass every rule.
C6_ValidationBeforeCore ==
    \A w \in Workers :
        LET v == ValidateRecommendationRequest(request[w])
        IN /\ pc[w] = "validate" =>
                 /\ ~invoked[w]
                 /\ allocation[w] = <<>>
                 /\ outcome[w] = NoOutcome
           /\ (pc[w] \in {"core", "responded"} /\ v.raised) =>
                 /\ pc[w] = "responded"
                 /\ ~invoked[w]
                 /\ allocation[w] = <<>>
                 /\ topic_recommendations[w] = <<>>
                 /\ outcome[w] = [status |-> 400, detail |-> v.exc.msg, body |-> <<>>]
           /\ (invoked[w] \/ pc[w] = "core" \/ allocation[w] /= <<>>) => ~v.raised

C6_Witness ==
    \E w \in Workers :
        /\ pc[w] = "responded"
        /\ ~invoked[w]
        /\ request[w].total_questions >= 1
        /\ outcome[w] = [status |-> 400, detail |-> NoLevelsMessage("B"), body |-> <<>>]

C8_ProgressIgnored ==
    \A w \in Workers :
        pc[w] = "responded" =>
            outcome[w] = RecommendQuestions("EvenDistributionStrategy",
                             [request[w] EXCEPT !.user_progress = <<>>])

C8_Witness ==
    \E w \in Workers :
        /\ Served(w)
        /\ Len(request[w].user_progress) = 2
        /\ \A j \in 1..2 :
              /\ request[w].user_progress[j].topic = Topics(w)[1].topic
              /\ request[w].user_progress[j].progress_by_level /= <<>>
              /\ request[w].user_progress[j].progress_by_level[1].solved >= 1
        /\ Topics(w)[1].available /= <<>>
        /\ outcome[w].body[1].recommendations[1].count >= 1

\* C9: no request changes the shared service instance, and under every
\* interleaving the outcome of a request is the outcome of that request
\* handled on its own; identical requests get identical outcomes.
C9_NoSharedState ==
    /\ service = [distribution_strategy |-> "EvenDistributionStrategy"]
    /\ \A w \in Workers :
          pc[w] = "responded" =>
              outcome[w] = RecommendQuestions("EvenDistributionStrategy", request[w])
    /\ \A w1, w2 \in Workers :
          (pc[w1] = "responded" /\ pc[w2] = "responded" /\ request[w1] = request[w2])
              => outcome[w1] = outcome[w2]

C9_Witness ==
    \E w1, w2 \in Workers :
        /\ w1 /= w2
        /\ Served(w1) /\ Served(w2)
        /\ request[w1] = request[w2]
        /\ outcome[w1] = outcome[w2]
        /\ Topics(w1)[1].available /= <<>>
        /\ outcome[w1].body[1].recommendations[1].count >= 1

\* C10: with T >= 1 and N >= 1 the counts of each topic sum to at most
\* T div N and the whole response to at most T; no level gets more than its
\* own pre-clamp share, so what one level loses to clamping goes nowhere.
C10_NeverMoreThanRequested ==
    \A w \in Workers :
        Served(w) =>
            LET T == request[w].total_questions
                N == Len(Topics(w))
            IN /\ TotalRecommended(outcome[w].body) <= T
               /\ \A k \in DOMAIN outcome[w].body :
                     LET recs == outcome[w].body[k].recommendations
                     IN /\ TopicTotalRecommended(recs) <= T \div N
                        /\ \A i \in DOMAIN recs :
                              recs[i].count <= Raw(T \div N, Len(recs), i - 1)

C10_Witness ==
    \E w \in Workers :
        /\ Served(w)
        /\ \E k \in DOMAIN outcome[w].body :
              LET recs == outcome[w].body[k].recommendations
                  avail == Topics(w)[k].available
                  A == request[w].total_questions \div Len(Topics(w))
              IN /\ Len(avail) = 2
                 /\ Raw(A, 2, 0) > avail[1].count
                 /\ recs[2].count < avail[2].count
                 /\ TopicTotalRecommended(recs) < A

=============================================================================
